---- MODULE Spec2Model ----
(***************************************************************************)
(* Queue service (app/main.py, app/models.py, app/database.py).            *)
(*                                                                         *)
(* The tables queueday, queueentry and queueloadsnapshot are sets of rows. *)
(* Strings are sequences of one-character strings.  A datetime is a record *)
(* [date, hour, minute]; seconds and microseconds are below the model's    *)
(* resolution.  created_at and captured_at are not modelled.               *)
(***************************************************************************)
EXTENDS Integers, Sequences, FiniteSets, TLC

VARIABLES
    queueday,           \* table queueday
    queueentry,         \* table queueentry
    queueloadsnapshot,  \* table queueloadsnapshot
    clock,              \* minutes since the start of day 0
    trip,               \* the status counts before the latest call_next_number
    session             \* per worker thread: where its request handler is, and its locals

vars == <<queueday, queueentry, queueloadsnapshot, clock, trip, session>>

(***************************************************************************)
(* Bounds of the model.                                                    *)
(***************************************************************************)
MaxDate == 1
MaxEntries == 3
MaxThreads == 2
MaxEditId == 2
MaxTicks == 3
TickMinutes == 20

(***************************************************************************)
(* Program constants.                                                      *)
(***************************************************************************)
SNAPSHOT_INTERVAL_MINUTES == 30
MaxTicketIndex == 999

None == [none |-> TRUE]

Dates == 0..MaxDate

(***************************************************************************)
(* Strings.                                                                *)
(***************************************************************************)
AsciiDigits == {"0", "1", "2", "3", "4", "5", "6", "7", "8", "9"}
PersianDigits == {"p0", "p1", "p2", "p3", "p4", "p5", "p6", "p7", "p8", "p9"}
ArabicDigits == {"a0", "a1", "a2", "a3", "a4", "a5", "a6", "a7", "a8", "a9"}
\* digits of str.isdigit that PERSIAN_DIGIT_TRANSLATION does not map:
\* "sup2" is SUPERSCRIPT TWO (U+00B2), "d9" is DEVANAGARI DIGIT NINE (U+096F)
OtherDigits == {"sup2", "d9"}
Whitespace == {" ", "\t"}

DigitChar(n) ==
    CASE n = 0 -> "0" [] n = 1 -> "1" [] n = 2 -> "2" [] n = 3 -> "3"
      [] n = 4 -> "4" [] n = 5 -> "5" [] n = 6 -> "6" [] n = 7 -> "7"
      [] n = 8 -> "8" [] n = 9 -> "9"

PERSIAN_DIGIT_TRANSLATION(c) ==
    CASE c \in {"p0", "a0"} -> "0" [] c \in {"p1", "a1"} -> "1"
      [] c \in {"p2", "a2"} -> "2" [] c \in {"p3", "a3"} -> "3"
      [] c \in {"p4", "a4"} -> "4" [] c \in {"p5", "a5"} -> "5"
      [] c \in {"p6", "a6"} -> "6" [] c \in {"p7", "a7"} -> "7"
      [] c \in {"p8", "a8"} -> "8" [] c \in {"p9", "a9"} -> "9"
      [] OTHER -> c

StartsWith(s, prefix) ==
    /\ Len(s) >= Len(prefix)
    /\ SubSeq(s, 1, Len(prefix)) = prefix

Slice(s, from) == SubSeq(s, from + 1, Len(s))

RECURSIVE LStrip(_)
LStrip(s) == IF s # <<>> /\ Head(s) \in Whitespace THEN LStrip(Tail(s)) ELSE s

RECURSIVE RStrip(_)
RStrip(s) ==
    IF s # <<>> /\ s[Len(s)] \in Whitespace
    THEN RStrip(SubSeq(s, 1, Len(s) - 1))
    ELSE s

Strip(s) == RStrip(LStrip(s))

IsDigit(s) ==
    /\ s # <<>>
    /\ \A i \in 1..Len(s) :
          s[i] \in AsciiDigits \cup PersianDigits \cup ArabicDigits \cup OtherDigits

\* f"{n:03d}": decimal digits of n, zero-padded on the left to width 3
RECURSIVE Decimal(_)
Decimal(n) == IF n < 10 THEN <<DigitChar(n)>> ELSE Decimal(n \div 10) \o <<DigitChar(n % 10)>>

Format03d(n) ==
    LET d == Decimal(n)
    IN  IF Len(d) >= 3 THEN d
        ELSE IF Len(d) = 2 THEN <<"0">> \o d
        ELSE <<"0", "0">> \o d

(***************************************************************************)
(* normalize_digits, normalize_phone                                       *)
(***************************************************************************)
Ok(v) == [ok |-> TRUE, value |-> v]
Raise(code, what) == [ok |-> FALSE, status_code |-> code, detail |-> what]

normalize_digits(value) == [i \in 1..Len(value) |-> PERSIAN_DIGIT_TRANSLATION(value[i])]

normalize_phone(phone) ==
    LET normalized == normalize_digits(phone)
        cleaned0 == SelectSeq(normalized, LAMBDA c : c \notin Whitespace \cup {"-", "(", ")"})
        cleaned == IF StartsWith(cleaned0, <<"0", "0">>)
                   THEN <<"+">> \o Slice(cleaned0, 2)
                   ELSE cleaned0
        digits == IF StartsWith(cleaned, <<"+">>) THEN Slice(cleaned, 1) ELSE cleaned
        shape == IF StartsWith(digits, <<"9", "8">>) THEN Ok(Slice(digits, 2))
                 ELSE IF StartsWith(digits, <<"0">>) /\ Len(digits) = 11 /\ digits[2] = "9"
                      THEN Ok(Slice(digits, 1))
                 ELSE IF StartsWith(digits, <<"9">>) /\ Len(digits) = 10
                      THEN Ok(digits)
                 ELSE Raise(400, "InvalidPhone")
    IN  IF cleaned0 = <<>> THEN Raise(400, "PhoneRequired")
        ELSE IF ~shape.ok THEN shape
        ELSE IF Len(shape.value) # 10 \/ ~IsDigit(shape.value) \/ ~StartsWith(shape.value, <<"9">>)
             THEN Raise(400, "InvalidPhone")
        ELSE Ok(<<"+", "9", "8">> \o shape.value)

(***************************************************************************)
(* Time: clock counts minutes; datetime.utcnow() and date.today() read it. *)
(***************************************************************************)
utcnow(t) == [date |-> t \div 1440, hour |-> (t % 1440) \div 60, minute |-> t % 60]

\* mutant: the date of the next day
today_next(t) == utcnow(t).date + 1

today(t) == t \div 1440

truncate_to_window(dt, minutes) == [dt EXCEPT !.minute = (dt.minute \div minutes) * minutes]

(***************************************************************************)
(* Rows and queries.  db is the record of the three tables.                *)
(***************************************************************************)
QueueDay(service_date, now) == [service_date |-> service_date, started_at |-> now]

\* mutant: a new row starts as active
QueueEntry_active(id, service_date, ticket_index, ticket_number, name, phone, birthday) ==
    [id |-> id, service_date |-> service_date, ticket_index |-> ticket_index,
     ticket_number |-> ticket_number, name |-> name, phone |-> phone,
     birthday |-> birthday, status |-> "active"]

\* the status column is added with DEFAULT 'waiting'
QueueEntry(id, service_date, ticket_index, ticket_number, name, phone, birthday) ==
    [id |-> id, service_date |-> service_date, ticket_index |-> ticket_index,
     ticket_number |-> ticket_number, name |-> name, phone |-> phone,
     birthday |-> birthday, status |-> "waiting"]

QueueLoadSnapshot(service_date, window_start, pending_count, waiting_count, served_count) ==
    [service_date |-> service_date, window_start |-> window_start,
     pending_count |-> pending_count, waiting_count |-> waiting_count,
     served_count |-> served_count]

\* .order_by(QueueEntry.ticket_index.asc()).first()
FirstAsc(rows) ==
    IF rows = {} THEN None
    ELSE CHOOSE e \in rows : \A o \in rows :
            \/ e.ticket_index < o.ticket_index
            \/ e.ticket_index = o.ticket_index /\ e.id <= o.id

\* .order_by(QueueEntry.ticket_index.desc()).first()
FirstDesc(rows) ==
    IF rows = {} THEN None
    ELSE CHOOSE e \in rows : \A o \in rows :
            \/ e.ticket_index > o.ticket_index
            \/ e.ticket_index = o.ticket_index /\ e.id <= o.id

RECURSIVE OrderAsc(_)
OrderAsc(rows) ==
    IF rows = {} THEN <<>>
    ELSE LET e == FirstAsc(rows) IN <<e>> \o OrderAsc(rows \ {e})

\* mutant: the primary key is ignored
get_day_any(table, service_date) ==
    IF table # {} THEN CHOOSE d \in table : TRUE ELSE None

\* session.get(QueueDay, service_date)
get_day(table, service_date) ==
    IF \E d \in table : d.service_date = service_date
    THEN CHOOSE d \in table : d.service_date = service_date
    ELSE None

\* session.get(QueueEntry, entry_id); session.refresh(entry)
get_entry(table, entry_id) ==
    IF \E e \in table : e.id = entry_id
    THEN CHOOSE e \in table : e.id = entry_id
    ELSE None

\* mutant: the lookup finds nothing
get_snapshot_miss(table, service_day, window_start) == None

\* session.get(QueueLoadSnapshot, (service_day, window_start))
get_snapshot(table, service_day, window_start) ==
    IF \E s \in table : s.service_date = service_day /\ s.window_start = window_start
    THEN CHOOSE s \in table : s.service_date = service_day /\ s.window_start = window_start
    ELSE None

fetch_queue_entries(table, service_day) ==
    OrderAsc({e \in table : e.service_date = service_day})

RECURSIVE summarize_loop(_, _, _)
summarize_loop(entries, i, acc) ==
    IF i > Len(entries) THEN acc
    ELSE LET entry == entries[i]
         IN  IF entry.status = "served"
             THEN summarize_loop(entries, i + 1,
                    [acc EXCEPT !.served_count = acc.served_count + 1])
             ELSE LET a1 == IF entry.status = "active" /\ acc.active = None
                            THEN [acc EXCEPT !.active = entry]
                            ELSE acc
                      a2 == IF entry.status = "waiting"
                            THEN [a1 EXCEPT !.waiting_count = a1.waiting_count + 1,
                                            !.next = IF a1.next = None THEN entry ELSE a1.next]
                            ELSE a1
                  IN  summarize_loop(entries, i + 1, a2)

\* mutant: served entries are not subtracted from the pending count
summarize_queue_total(entries) ==
    LET acc == summarize_loop(entries, 1,
                 [active |-> None, next |-> None, waiting_count |-> 0, served_count |-> 0])
    IN  [active |-> acc.active, next |-> acc.next,
         waiting_count |-> acc.waiting_count, served_count |-> acc.served_count,
         pending_count |-> Len(entries)]

summarize_queue(entries) ==
    LET acc == summarize_loop(entries, 1,
                 [active |-> None, next |-> None, waiting_count |-> 0, served_count |-> 0])
    IN  [active |-> acc.active, next |-> acc.next,
         waiting_count |-> acc.waiting_count, served_count |-> acc.served_count,
         pending_count |-> Len(entries) - acc.served_count]

\* returns the queueloadsnapshot table after the upsert and commit
record_queue_snapshot(db, service_day, t) ==
    LET entries == fetch_queue_entries(db.queueentry, service_day)
        summary == summarize_queue(entries)
        window_start == truncate_to_window(utcnow(t), SNAPSHOT_INTERVAL_MINUTES)
        snapshot == get_snapshot(db.queueloadsnapshot, service_day, window_start)
        row == QueueLoadSnapshot(service_day, window_start, summary.pending_count,
                                 summary.waiting_count, summary.served_count)
    IN  IF snapshot = None
        THEN db.queueloadsnapshot \cup {row}
        ELSE (db.queueloadsnapshot \ {snapshot}) \cup {row}

\* mutant: the status filter is misspelt, so no row matches
get_active_entry_typo(table, service_day) ==
    FirstAsc({e \in table : e.service_date = service_day /\ e.status = "Active"})

get_active_entry(table, service_day) ==
    FirstAsc({e \in table : e.service_date = service_day /\ e.status = "active"})

\* mutant: the waiting rows are ordered by ticket_index descending
get_next_waiting_entry_desc(table, service_day, after_index) ==
    LET entry == FirstDesc({e \in table : /\ e.service_date = service_day
                                          /\ e.status = "waiting"
                                          /\ e.ticket_index > after_index})
    IN  IF entry # None THEN entry
        ELSE FirstDesc({e \in table : e.service_date = service_day /\ e.status = "waiting"})

get_next_waiting_entry(table, service_day, after_index) ==
    LET entry == FirstAsc({e \in table : /\ e.service_date = service_day
                                         /\ e.status = "waiting"
                                         /\ e.ticket_index > after_index})
    IN  IF entry # None THEN entry
        ELSE FirstAsc({e \in table : e.service_date = service_day /\ e.status = "waiting"})

\* mutant: the rows filtered are the waiting ones
get_last_served_entry_waiting(table, service_day) ==
    FirstDesc({e \in table : e.service_date = service_day /\ e.status = "waiting"})

\* mutant: the served rows are ordered by ticket_index ascending
get_last_served_entry_asc(table, service_day) ==
    FirstAsc({e \in table : e.service_date = service_day /\ e.status = "served"})

\* mutant: the rows filtered are the active ones
get_last_served_entry_active(table, service_day) ==
    FirstDesc({e \in table : e.service_date = service_day /\ e.status = "active"})

get_last_served_entry(table, service_day) ==
    FirstDesc({e \in table : e.service_date = service_day /\ e.status = "served"})

\* mutant: the UPDATE has no WHERE clause
set_status_all(table, entry, status) ==
    {[e EXCEPT !.status = status] : e \in table}

\* UPDATE queueentry SET status = ... WHERE id = ...
set_status(table, entry, status) ==
    {IF e.id = entry.id THEN [e EXCEPT !.status = status] ELSE e : e \in table}

\* mutant: the table has no unique constraint
uq_queue_entry_per_day_off(table, entry) == TRUE

\* UniqueConstraint("service_date", "ticket_index"): may the row be inserted?
uq_queue_entry_per_day(table, entry) ==
    ~\E e \in table : /\ e.service_date = entry.service_date
                      /\ e.ticket_index = entry.ticket_index

\* INSERT without an id: SQLite assigns the largest rowid plus one
next_rowid(table) ==
    IF table = {} THEN 1
    ELSE (CHOOSE i \in {e.id : e \in table} : \A e \in table : e.id <= i) + 1

\* mutant: the minimum is selected
max_ticket_index_min(table, service_date) ==
    LET idx == {e.ticket_index : e \in {r \in table : r.service_date = service_date}}
    IN  IF idx = {} THEN None ELSE [value |-> CHOOSE i \in idx : \A j \in idx : i <= j]

\* mutant: the maximum is taken over every date
max_ticket_index_any_date(table, service_date) ==
    LET idx == {e.ticket_index : e \in table}
    IN  IF idx = {} THEN None ELSE [value |-> CHOOSE i \in idx : \A j \in idx : j <= i]

\* select(func.max(QueueEntry.ticket_index)).where(service_date == ...)
max_ticket_index(table, service_date) ==
    LET idx == {e.ticket_index : e \in {r \in table : r.service_date = service_date}}
    IN  IF idx = {} THEN None ELSE [value |-> CHOOSE i \in idx : \A j \in idx : j <= i]

(***************************************************************************)
(* Request handlers, each executed alone from request to response.  A      *)
(* handler maps the tables db and the time t to the tables it leaves       *)
(* committed and its response.  A raised HTTPException closes the session, *)
(* which rolls back what was not committed.                                *)
(***************************************************************************)
Response(status_code, detail, active, served, body) ==
    [status_code |-> status_code, detail |-> detail,
     active |-> active, served |-> served, body |-> body]

Done(db, resp) == [db |-> db, response |-> resp]

\* mutant: the check for existing entries is missing
start_day_unguarded(db, t, service_date, overwrite) ==
    LET existing == get_day(db.queueday, service_date)
        reset == existing # None /\ overwrite
        db1 == IF reset
               THEN [db EXCEPT !.queueday = db.queueday \ {existing},
                               !.queueentry = {e \in db.queueentry :
                                                 e.service_date # service_date}]
               ELSE db
        queue_day == QueueDay(service_date, utcnow(t))
        db2 == [db1 EXCEPT !.queueday = db1.queueday \cup {queue_day}]
        db3 == [db2 EXCEPT !.queueloadsnapshot = record_queue_snapshot(db2, service_date, t)]
    IN  IF existing # None /\ ~overwrite
        THEN Done(db, Response(400, "DayAlreadyStarted", None, None, None))
        ELSE Done(db3, Response(201, "ok", None, None, queue_day))

start_day(db, t, service_date, overwrite) ==
    LET existing == get_day(db.queueday, service_date)
        entries_exist == \E e \in db.queueentry : e.service_date = service_date
        reset == existing # None /\ overwrite
        \* session.delete(existing); delete(QueueEntry); session.commit()
        db1 == IF reset
               THEN [db EXCEPT !.queueday = db.queueday \ {existing},
                               !.queueentry = {e \in db.queueentry :
                                                 e.service_date # service_date}]
               ELSE db
        queue_day == QueueDay(service_date, utcnow(t))
        db2 == [db1 EXCEPT !.queueday = db1.queueday \cup {queue_day}]
        db3 == [db2 EXCEPT !.queueloadsnapshot = record_queue_snapshot(db2, service_date, t)]
    IN  IF existing # None /\ ~overwrite
        THEN Done(db, Response(400, "DayAlreadyStarted", None, None, None))
        ELSE IF existing # None /\ entries_exist
        THEN Done(db, Response(400, "DayActiveCannotReset", None, None, None))
        ELSE Done(db3, Response(201, "ok", None, None, queue_day))

create_entry(db, t, payload) ==
    LET service_date == payload.service_date
        queue_day == get_day(db.queueday, service_date)
        \* session.add(queue_day); session.commit()
        db1 == IF queue_day = None
               THEN [db EXCEPT !.queueday = db.queueday \cup {QueueDay(service_date, utcnow(t))}]
               ELSE db
        name == Strip(payload.name)
        phone == Strip(payload.phone)
        normalized_phone == normalize_phone(phone)
        max_index == max_ticket_index(db1.queueentry, service_date)
        current_index == IF max_index = None THEN 0 ELSE max_index.value
        next_index == current_index + 1
        entry == QueueEntry(next_rowid(db1.queueentry), service_date, next_index,
                            Format03d(next_index), name, normalized_phone.value,
                            payload.birthday)
        db2 == [db1 EXCEPT !.queueentry = db1.queueentry \cup {entry}]
        db3 == [db2 EXCEPT !.queueloadsnapshot = record_queue_snapshot(db2, service_date, t)]
    IN  IF name = <<>> \/ phone = <<>>
        THEN Done(db1, Response(400, "NameAndPhoneRequired",
                                None, None, None))
        ELSE IF ~normalized_phone.ok
        THEN Done(db1, Response(normalized_phone.status_code,
                                normalized_phone.detail, None, None, None))
        ELSE IF next_index > MaxTicketIndex
        THEN Done(db1, Response(400, "QueueFull", None, None, None))
        ELSE Done(db3, Response(201, "ok", None, None,
                                get_entry(db3.queueentry, entry.id)))

update_entry(db, t, entry_id, payload) ==
    LET entry == get_entry(db.queueentry, entry_id)
        updates == payload.fields
        name == Strip(payload.name)
        phone_value == normalize_digits(Strip(payload.phone))
        normalized_phone == normalize_phone(phone_value)
        e1 == IF "name" \in updates THEN [entry EXCEPT !.name = name] ELSE entry
        e2 == IF "phone" \in updates THEN [e1 EXCEPT !.phone = normalized_phone.value] ELSE e1
        e3 == IF "birthday" \in updates THEN [e2 EXCEPT !.birthday = payload.birthday] ELSE e2
        db1 == [db EXCEPT !.queueentry = (db.queueentry \ {entry}) \cup {e3}]
        db2 == [db1 EXCEPT !.queueloadsnapshot =
                              record_queue_snapshot(db1, entry.service_date, t)]
        Fail(code, what) == Done(db, Response(code, what, None, None, None))
    IN  IF entry = None THEN Fail(404, "EntryNotFound")
        ELSE IF entry.service_date # today(t) THEN Fail(403, "EditWindowClosed")
        ELSE IF updates = {} THEN Fail(400, "NoFields")
        ELSE IF "name" \in updates /\ name = <<>> THEN Fail(400, "NameRequired")
        ELSE IF "phone" \in updates /\ phone_value = <<>> THEN Fail(400, "PhoneRequired")
        ELSE IF "phone" \in updates /\ ~normalized_phone.ok
        THEN Fail(normalized_phone.status_code, normalized_phone.detail)
        ELSE Done(db2, Response(200, "ok", None, None,
                                get_entry(db2.queueentry, entry_id)))

call_next_number(db, t, service_day) ==
    LET active_entry == get_active_entry(db.queueentry, service_day)
        \* active_entry.status = "served"
        table1 == IF active_entry # None
                  THEN set_status(db.queueentry, active_entry, "served")
                  ELSE db.queueentry
        served_entry == active_entry
        last_served == get_last_served_entry(db.queueentry, service_day)
        last_index == IF active_entry # None THEN active_entry.ticket_index
                      ELSE IF last_served # None THEN last_served.ticket_index
                      ELSE 0
        next_entry == get_next_waiting_entry(table1, service_day, last_index)
        \* next_entry.status = "active"
        table2 == IF next_entry # None
                  THEN set_status(table1, next_entry, "active")
                  ELSE table1
        db1 == [db EXCEPT !.queueentry = table2]
        db2 == [db1 EXCEPT !.queueloadsnapshot = record_queue_snapshot(db1, service_day, t)]
    IN  Done(db2, Response(200,
                           IF next_entry # None THEN "NextCalled" ELSE "QueueEmpty",
                           IF next_entry # None
                           THEN get_entry(db2.queueentry, next_entry.id) ELSE None,
                           IF served_entry # None
                           THEN get_entry(db2.queueentry, served_entry.id) ELSE None,
                           None))

call_previous_number(db, t, service_day) ==
    LET previous_entry == get_last_served_entry(db.queueentry, service_day)
        active_entry == get_active_entry(db.queueentry, service_day)
        \* active_entry.status = "waiting"
        table1 == IF active_entry # None
                  THEN set_status(db.queueentry, active_entry, "waiting")
                  ELSE db.queueentry
        \* previous_entry.status = "active"
        table2 == set_status(table1, previous_entry, "active")
        db1 == [db EXCEPT !.queueentry = table2]
        db2 == [db1 EXCEPT !.queueloadsnapshot = record_queue_snapshot(db1, service_day, t)]
    IN  IF previous_entry = None
        THEN Done(db, Response(404, "NoPreviousEntry",
                               None, None, None))
        ELSE Done(db2, Response(200, "PreviousCalled",
                                get_entry(db2.queueentry, previous_entry.id), None, None))

(***************************************************************************)
(* Request inputs.                                                         *)
(***************************************************************************)
Phone1 == <<"0", "9", "1", "2", " ", "3", "4", "5", " ", "6", "7", "8", "9">>
Phone2 == <<"0", "0", "9", "8", "9", "1", "2", "p3", "p4", "p5", "6", "7", "8", "9">>
BadPhone == <<"1", "2", "3">>

CreateFields ==
    { [name |-> <<>>, phone |-> Phone1, birthday |-> None],
      [name |-> <<" ", "a">>, phone |-> <<" ">>, birthday |-> None],
      [name |-> <<" ", "a">>, phone |-> BadPhone, birthday |-> None],
      [name |-> <<" ", "a">>, phone |-> Phone1, birthday |-> None] }

CreatePayloads ==
    { [service_date |-> d, name |-> f.name, phone |-> f.phone, birthday |-> f.birthday] :
        d \in Dates, f \in CreateFields }

\* fields is the set of keys of payload.model_dump(exclude_unset=True)
UpdatePayloads ==
    { [fields |-> {}, name |-> <<>>, phone |-> <<>>, birthday |-> None],
      [fields |-> {"name"}, name |-> <<" ">>, phone |-> <<>>, birthday |-> None],
      [fields |-> {"name"}, name |-> <<"b", " ">>, phone |-> <<>>, birthday |-> None],
      [fields |-> {"phone"}, name |-> <<>>, phone |-> <<" ">>, birthday |-> None],
      [fields |-> {"name", "phone"}, name |-> <<"a">>, phone |-> BadPhone, birthday |-> None],
      [fields |-> {"name", "phone", "birthday"}, name |-> <<"a">>, phone |-> Phone2,
       birthday |-> None] }

\* does create_entry accept the name and the phone?
ValidCreate(payload) ==
    LET name == Strip(payload.name)
        phone == Strip(payload.phone)
    IN  name # <<>> /\ phone # <<>> /\ normalize_phone(phone).ok

(***************************************************************************)
(* The service handling one request at a time.  trip remembers a           *)
(* call_next_number that activated an entry (phase "next") and the         *)
(* call_previous_number that follows it at once on the same date (phase    *)
(* "previous"); any other request clears it.                               *)
(***************************************************************************)
DB == [queueday |-> queueday, queueentry |-> queueentry,
       queueloadsnapshot |-> queueloadsnapshot]

NoTrip == [phase |-> "none"]

Threads == 1..MaxThreads

\* a worker thread with no request
Idle == [pc |-> "idle"]

\* how many entries of the date have each status
StatusCount(table, service_date) ==
    [s \in {"waiting", "active", "served"} |->
        Cardinality({e \in table : e.service_date = service_date /\ e.status = s})]

Commit(r, tr) ==
    /\ queueday' = r.db.queueday
    /\ queueentry' = r.db.queueentry
    /\ queueloadsnapshot' = r.db.queueloadsnapshot
    /\ trip' = tr
    /\ UNCHANGED <<clock, session>>

Init ==
    /\ queueday = {}
    /\ queueentry = {}
    /\ queueloadsnapshot = {}
    /\ clock = 0
    /\ trip = NoTrip
    /\ session = [t \in Threads |-> Idle]

OpenDayAt(service_date, overwrite) ==
    Commit(start_day(DB, clock, service_date, overwrite), NoTrip)

IssueAt(payload) ==
    LET r == create_entry(DB, clock, payload)
    IN  /\ Cardinality(r.db.queueentry) <= MaxEntries
        /\ Commit(r, NoTrip)

EditAt(entry_id, payload) ==
    Commit(update_entry(DB, clock, entry_id, payload), NoTrip)

CallNextAt(service_date) ==
    LET r == call_next_number(DB, clock, service_date)
    IN  Commit(r, IF r.response.active # None
                  THEN [phase |-> "next", service_date |-> service_date,
                        before |-> StatusCount(queueentry, service_date)]
                  ELSE NoTrip)

CallPreviousAt(service_date) ==
    Commit(call_previous_number(DB, clock, service_date),
           IF trip.phase = "next" /\ trip.service_date = service_date
           THEN [trip EXCEPT !.phase = "previous"]
           ELSE NoTrip)

OpenDay == \E service_date \in Dates, overwrite \in BOOLEAN : OpenDayAt(service_date, overwrite)

Issue == \E payload \in CreatePayloads : IssueAt(payload)

Edit == \E entry_id \in 1..MaxEditId, payload \in UpdatePayloads : EditAt(entry_id, payload)

CallNext == \E service_date \in Dates : CallNextAt(service_date)

CallPrevious == \E service_date \in Dates : CallPreviousAt(service_date)

Next == OpenDay \/ Issue \/ Edit \/ CallNext \/ CallPrevious

Spec == Init /\ [][Next]_vars

(***************************************************************************)
(* The service handling requests in parallel worker threads (FastAPI runs  *)
(* each def endpoint in a thread pool; every request has its own Session   *)
(* on the one SQLite file).  The driver opens a transaction at the first   *)
(* INSERT/UPDATE/DELETE, not at a SELECT, so every SELECT made before the  *)
(* first write reads what is committed at that moment and is a step of its *)
(* own.  From the first flushed write to session.commit() the thread holds *)
(* SQLite's write lock, so that stretch is one step.  session.refresh      *)
(* after a commit is taken together with the SELECT that follows it.       *)
(* A failing statement (IntegrityError, StaleDataError) or a raised        *)
(* HTTPException rolls back the open transaction and ends the request.     *)
(* Every request addresses today's queue.  commits counts the transactions *)
(* the request has committed.                                              *)
(***************************************************************************)
Goto(t, local) == session' = [session EXCEPT ![t] = local]

\* a step that writes nothing
Read(t, local) ==
    /\ Goto(t, local)
    /\ UNCHANGED <<queueday, queueentry, queueloadsnapshot, clock, trip>>

Rollback(t) == Read(t, Idle)

\* payloads of concurrent requests: one rejected, one accepted
ConcCreatePayloads ==
    {p \in CreatePayloads : p.service_date = today(clock) /\ p.phone = Phone1}

\* requests that may still insert an entry
Creating == {t \in Threads : session[t].pc \in {"create_entry_add_day",
                                               "create_entry_max_index",
                                               "create_entry_add"}}

\* -- record_queue_snapshot ------------------------------------------------
ToSnapshot(s, refresh_day, refresh, commits) ==
    [pc |-> "snapshot_fetch", service_date |-> s.service_date,
     refresh_day |-> refresh_day, refresh |-> refresh, commits |-> commits]

snapshot_fetch(t) ==
    LET s == session[t]
        refreshed == /\ s.refresh_day => get_day(queueday, s.service_date) # None
                     /\ \A i \in s.refresh : get_entry(queueentry, i) # None
        summary == summarize_queue(fetch_queue_entries(queueentry, s.service_date))
    IN  /\ s.pc = "snapshot_fetch"
        /\ IF ~refreshed THEN Rollback(t)
           ELSE Read(t, [pc |-> "snapshot_get", service_date |-> s.service_date,
                         pending_count |-> summary.pending_count,
                         waiting_count |-> summary.waiting_count,
                         served_count |-> summary.served_count,
                         commits |-> s.commits])

snapshot_get(t) ==
    LET s == session[t]
        window_start == truncate_to_window(utcnow(clock), SNAPSHOT_INTERVAL_MINUTES)
        snapshot == get_snapshot(queueloadsnapshot, s.service_date, window_start)
    IN  /\ s.pc = "snapshot_get"
        /\ Read(t, [pc |-> "snapshot_commit", service_date |-> s.service_date,
                    window_start |-> window_start, found |-> snapshot # None,
                    pending_count |-> s.pending_count,
                    waiting_count |-> s.waiting_count,
                    served_count |-> s.served_count,
                    commits |-> s.commits])

snapshot_commit(t) ==
    LET s == session[t]
        snapshot == get_snapshot(queueloadsnapshot, s.service_date, s.window_start)
        row == QueueLoadSnapshot(s.service_date, s.window_start, s.pending_count,
                                 s.waiting_count, s.served_count)
    IN  /\ s.pc = "snapshot_commit"
        /\ IF ~s.found /\ snapshot # None
           THEN Rollback(t)         \* INSERT of an existing primary key
           ELSE /\ queueloadsnapshot' = (queueloadsnapshot \ {snapshot}) \cup {row}
                /\ Goto(t, Idle)
                /\ UNCHANGED <<queueday, queueentry, clock, trip>>

\* -- start_day --------------------------------------------------------------
start_day_get(t, overwrite) ==
    /\ session[t] = Idle
    /\ Read(t, [pc |-> "start_day_entries_exist", service_date |-> today(clock),
                overwrite |-> overwrite,
                existing |-> get_day(queueday, today(clock)) # None,
                commits |-> 0])

start_day_entries_exist(t) ==
    LET s == session[t]
        entries_exist == \E e \in queueentry : e.service_date = s.service_date
    IN  /\ s.pc = "start_day_entries_exist"
        /\ IF s.existing /\ ~s.overwrite THEN Rollback(t)
           ELSE IF s.existing /\ entries_exist THEN Rollback(t)
           ELSE Read(t, [pc |-> IF s.existing /\ s.overwrite
                                THEN "start_day_reset" ELSE "start_day_add",
                         service_date |-> s.service_date, commits |-> 0])

start_day_reset(t) ==
    LET s == session[t]
    IN  /\ s.pc = "start_day_reset"
        /\ queueday' = {q \in queueday : q.service_date # s.service_date}
        /\ queueentry' = {e \in queueentry : e.service_date # s.service_date}
        /\ Goto(t, [s EXCEPT !.pc = "start_day_add", !.commits = s.commits + 1])
        /\ UNCHANGED <<queueloadsnapshot, clock, trip>>

start_day_add(t) ==
    LET s == session[t]
    IN  /\ s.pc = "start_day_add"
        /\ IF get_day(queueday, s.service_date) # None
           THEN Rollback(t)         \* INSERT of an existing primary key
           ELSE /\ queueday' = queueday \cup {QueueDay(s.service_date, utcnow(clock))}
                /\ Goto(t, ToSnapshot(s, TRUE, {}, s.commits + 1))
                /\ UNCHANGED <<queueentry, queueloadsnapshot, clock, trip>>

\* -- create_entry -----------------------------------------------------------
create_entry_validated(payload, commits) ==
    IF ValidCreate(payload)
    THEN [pc |-> "create_entry_max_index", service_date |-> payload.service_date,
          payload |-> payload, commits |-> commits]
    ELSE Idle

create_entry_get_day(t, payload) ==
    /\ session[t] = Idle
    /\ Cardinality(queueentry) + Cardinality(Creating) < MaxEntries   \* bound
    /\ IF get_day(queueday, payload.service_date) = None
       THEN Read(t, [pc |-> "create_entry_add_day",
                     service_date |-> payload.service_date,
                     payload |-> payload, commits |-> 0])
       ELSE Read(t, create_entry_validated(payload, 0))

create_entry_add_day(t) ==
    LET s == session[t]
    IN  /\ s.pc = "create_entry_add_day"
        /\ IF get_day(queueday, s.service_date) # None
           THEN Rollback(t)         \* INSERT of an existing primary key
           ELSE /\ queueday' = queueday \cup {QueueDay(s.service_date, utcnow(clock))}
                /\ Goto(t, create_entry_validated(s.payload, s.commits + 1))
                /\ UNCHANGED <<queueentry, queueloadsnapshot, clock, trip>>

create_entry_max_index(t) ==
    LET s == session[t]
        max_index == max_ticket_index(queueentry, s.service_date)
        current_index == IF max_index = None THEN 0 ELSE max_index.value
        next_index == current_index + 1
    IN  /\ s.pc = "create_entry_max_index"
        /\ next_index <= MaxEntries      \* bound of the model
        /\ IF next_index > MaxTicketIndex THEN Rollback(t)
           ELSE Read(t, [pc |-> "create_entry_add", service_date |-> s.service_date,
                         payload |-> s.payload, next_index |-> next_index,
                         commits |-> s.commits])

create_entry_add(t) ==
    LET s == session[t]
        entry == QueueEntry(next_rowid(queueentry), s.service_date, s.next_index,
                            Format03d(s.next_index), Strip(s.payload.name),
                            normalize_phone(Strip(s.payload.phone)).value,
                            s.payload.birthday)
    IN  /\ s.pc = "create_entry_add"
        /\ IF ~uq_queue_entry_per_day(queueentry, entry)
           THEN Rollback(t)         \* IntegrityError
           ELSE /\ queueentry' = queueentry \cup {entry}
                /\ Goto(t, ToSnapshot(s, FALSE, {entry.id}, s.commits + 1))
                /\ UNCHANGED <<queueday, queueloadsnapshot, clock, trip>>

\* -- call_next_number -------------------------------------------------------
call_next_get_active(t) ==
    LET service_day == today(clock)
        active_entry == get_active_entry(queueentry, service_day)
    IN  /\ session[t] = Idle
        /\ IF active_entry # None
           THEN Read(t, [pc |-> "call_next_flush", service_date |-> service_day,
                         active_entry |-> active_entry.id,
                         last_index |-> active_entry.ticket_index, commits |-> 0])
           ELSE Read(t, [pc |-> "call_next_last_served", service_date |-> service_day,
                         commits |-> 0])

\* the UPDATE of active_entry is flushed by the query for the next entry
call_next_flush(t) ==
    LET s == session[t]
        active_entry == get_entry(queueentry, s.active_entry)
        table1 == set_status(queueentry, active_entry, "served")
        next_entry == get_next_waiting_entry(table1, s.service_date, s.last_index)
        table2 == IF next_entry # None
                  THEN set_status(table1, next_entry, "active")
                  ELSE table1
    IN  /\ s.pc = "call_next_flush"
        /\ IF active_entry = None
           THEN Rollback(t)         \* UPDATE matched no row
           ELSE /\ queueentry' = table2
                /\ Goto(t, ToSnapshot(s, FALSE,
                                      {s.active_entry} \cup
                                      (IF next_entry # None THEN {next_entry.id} ELSE {}),
                                      s.commits + 1))
                /\ UNCHANGED <<queueday, queueloadsnapshot, clock, trip>>

call_next_last_served(t) ==
    LET s == session[t]
        last_served == get_last_served_entry(queueentry, s.service_date)
    IN  /\ s.pc = "call_next_last_served"
        /\ Read(t, [pc |-> "call_next_waiting", service_date |-> s.service_date,
                    last_index |-> IF last_served # None
                                   THEN last_served.ticket_index ELSE 0,
                    commits |-> s.commits])

call_next_waiting(t) ==
    LET s == session[t]
        entry == FirstAsc({e \in queueentry : /\ e.service_date = s.service_date
                                              /\ e.status = "waiting"
                                              /\ e.ticket_index > s.last_index})
    IN  /\ s.pc = "call_next_waiting"
        /\ IF entry # None
           THEN Read(t, [pc |-> "call_next_commit", service_date |-> s.service_date,
                         next_entry |-> {entry.id}, commits |-> s.commits])
           ELSE Read(t, [pc |-> "call_next_fallback", service_date |-> s.service_date,
                         commits |-> s.commits])

call_next_fallback(t) ==
    LET s == session[t]
        entry == FirstAsc({e \in queueentry : /\ e.service_date = s.service_date
                                              /\ e.status = "waiting"})
    IN  /\ s.pc = "call_next_fallback"
        /\ Read(t, [pc |-> "call_next_commit", service_date |-> s.service_date,
                    next_entry |-> IF entry # None THEN {entry.id} ELSE {},
                    commits |-> s.commits])

call_next_commit(t) ==
    LET s == session[t]
    IN  /\ s.pc = "call_next_commit"
        /\ IF s.next_entry = {}
           THEN Read(t, ToSnapshot(s, FALSE, {}, s.commits))
           ELSE IF \E i \in s.next_entry : get_entry(queueentry, i) = None
           THEN Rollback(t)         \* UPDATE matched no row
           ELSE /\ queueentry' = {IF e.id \in s.next_entry
                                  THEN [e EXCEPT !.status = "active"] ELSE e :
                                  e \in queueentry}
                /\ Goto(t, ToSnapshot(s, FALSE, s.next_entry, s.commits + 1))
                /\ UNCHANGED <<queueday, queueloadsnapshot, clock, trip>>

\* -- call_previous_number ---------------------------------------------------
call_previous_get_previous(t) ==
    LET service_day == today(clock)
        previous_entry == get_last_served_entry(queueentry, service_day)
    IN  /\ session[t] = Idle
        /\ IF previous_entry = None THEN Rollback(t)
           ELSE Read(t, [pc |-> "call_previous_get_active", service_date |-> service_day,
                         previous_entry |-> previous_entry.id, commits |-> 0])

call_previous_get_active(t) ==
    LET s == session[t]
        active_entry == get_active_entry(queueentry, s.service_date)
    IN  /\ s.pc = "call_previous_get_active"
        /\ Read(t, [pc |-> "call_previous_commit", service_date |-> s.service_date,
                    previous_entry |-> s.previous_entry,
                    active_entry |-> IF active_entry # None THEN {active_entry.id} ELSE {},
                    commits |-> s.commits])

\* active_entry.status = "waiting", then previous_entry.status = "active"
call_previous_commit(t) ==
    LET s == session[t]
        table1 == {IF e.id \in s.active_entry
                   THEN [e EXCEPT !.status = "waiting"] ELSE e : e \in queueentry}
        table2 == {IF e.id = s.previous_entry
                   THEN [e EXCEPT !.status = "active"] ELSE e : e \in table1}
    IN  /\ s.pc = "call_previous_commit"
        /\ IF \E i \in s.active_entry \cup {s.previous_entry} :
                 get_entry(queueentry, i) = None
           THEN Rollback(t)         \* UPDATE matched no row
           ELSE /\ queueentry' = table2
                /\ Goto(t, ToSnapshot(s, FALSE, s.active_entry \cup {s.previous_entry},
                                      s.commits + 1))
                /\ UNCHANGED <<queueday, queueloadsnapshot, clock, trip>>

ConcOpenDay ==
    \E t \in Threads :
        \/ \E overwrite \in BOOLEAN : start_day_get(t, overwrite)
        \/ start_day_entries_exist(t)
        \/ start_day_reset(t)
        \/ start_day_add(t)

ConcIssue ==
    \E t \in Threads :
        \/ \E payload \in ConcCreatePayloads : create_entry_get_day(t, payload)
        \/ create_entry_add_day(t)
        \/ create_entry_max_index(t)
        \/ create_entry_add(t)

ConcCallNext ==
    \E t \in Threads :
        \/ call_next_get_active(t)
        \/ call_next_flush(t)
        \/ call_next_last_served(t)
        \/ call_next_waiting(t)
        \/ call_next_fallback(t)
        \/ call_next_commit(t)

ConcCallPrevious ==
    \E t \in Threads :
        \/ call_previous_get_previous(t)
        \/ call_previous_get_active(t)
        \/ call_previous_commit(t)

ConcSnapshot ==
    \E t \in Threads : snapshot_fetch(t) \/ snapshot_get(t) \/ snapshot_commit(t)

ConcNext == ConcIssue \/ ConcCallNext \/ ConcCallPrevious \/ ConcSnapshot

\* concurrent Issue, CallNext and CallPrevious requests
ConcSpec == Init /\ [][ConcNext]_vars

ConcOpenDayNext == ConcOpenDay \/ ConcIssue \/ ConcSnapshot

\* concurrent OpenDay and Issue requests
ConcOpenDaySpec == Init /\ [][ConcOpenDayNext]_vars

(***************************************************************************)
(* The service close to the ticket limit.  Rows with a high ticket_index   *)
(* and no lower ones are left when start_day resets a date between the     *)
(* max(ticket_index) query and the INSERT of a concurrent create_entry     *)
(* (ConcOpenDaySpec), each round raising the index by one.  The start is   *)
(* such a store: today's queue holds one entry, the one before the limit,  *)
(* just issued.                                                            *)
(***************************************************************************)
FullInit ==
    LET service_date == today(0)
        next_index == MaxTicketIndex - 1
        entry == QueueEntry(1, service_date, next_index, Format03d(next_index),
                            <<"a">>, normalize_phone(Phone1).value, None)
    IN  /\ queueday = {QueueDay(service_date, utcnow(0))}
        /\ queueentry = {entry}
        /\ queueloadsnapshot =
              record_queue_snapshot([queueday |-> {}, queueentry |-> {entry},
                                     queueloadsnapshot |-> {}], service_date, 0)
        /\ clock = 0
        /\ trip = NoTrip
        /\ session = [t \in Threads |-> Idle]

FullSpec == FullInit /\ [][Next]_vars

(***************************************************************************)
(* The service handling one request at a time while time passes:           *)
(* datetime.utcnow() advances between requests.                            *)
(***************************************************************************)
Tick ==
    /\ clock < MaxTicks * TickMinutes
    /\ clock' = clock + TickMinutes
    /\ UNCHANGED <<queueday, queueentry, queueloadsnapshot, trip, session>>

\* requests made while time passes: today's queue, an accepted Issue payload
\* and an Edit of the name of the first entry
TimeCreatePayloads ==
    {p \in CreatePayloads : p.service_date = today(clock) /\ ValidCreate(p)}

TimeUpdatePayloads ==
    {p \in UpdatePayloads : p.fields = {"name"} /\ Strip(p.name) # <<>>}

TimeOpenDay == \E overwrite \in BOOLEAN : OpenDayAt(today(clock), overwrite)

TimeIssue == \E payload \in TimeCreatePayloads : IssueAt(payload)

TimeEdit == \E payload \in TimeUpdatePayloads : EditAt(1, payload)

TimeCallNext == CallNextAt(today(clock))

TimeCallPrevious == CallPreviousAt(today(clock))

TimeNext ==
    Tick \/ TimeOpenDay \/ TimeIssue \/ TimeEdit \/ TimeCallNext \/ TimeCallPrevious

TimeSpec == Init /\ [][TimeNext]_vars

(***************************************************************************)
(* The service handling one request at a time, with edits that change      *)
(* every editable column.                                                  *)
(***************************************************************************)
Phone3 == <<"0", "9", "3", "5", "1", "1", "1", "2", "2", "2", "2">>
Birthday1 == [date |-> 0]

FrameUpdatePayloads ==
    UpdatePayloads \cup
    { [fields |-> {"name", "phone", "birthday"}, name |-> <<"b">>, phone |-> Phone3,
       birthday |-> Birthday1],
      [fields |-> {"birthday"}, name |-> <<>>, phone |-> <<>>, birthday |-> Birthday1] }

FrameEdit ==
    \E entry_id \in 1..MaxEditId, payload \in FrameUpdatePayloads : EditAt(entry_id, payload)

FrameNext == OpenDay \/ Issue \/ FrameEdit \/ CallNext \/ CallPrevious

FrameSpec == Init /\ [][FrameNext]_vars

(***************************************************************************)
(* The service handling one request at a time, with phone numbers of many  *)
(* shapes: a prefix, a local part and separators, in several scripts.      *)
(***************************************************************************)
PhonePrefixes ==
    { <<>>, <<"+">>, <<"0">>, <<"0", "0">>, <<"9", "8">>, <<"+", "9", "8">>,
      <<"0", "0", "9", "8">>, <<"+", "0">>, <<"0", "0", "0">>, <<"+", "+", "9", "8">>,
      <<"(", "+", "9", "8", ")", " ">>, <<"p0">>, <<"0", "0", "p9", "a8">>,
      <<"9", "8", "0">> }

PhoneLocals ==
    { <<>>,
      <<"9", "1", "2", "3", "4", "5", "6", "7", "8", "9">>,
      <<"9", "3", "5", "-", "1", "1", "1", " ", "2", "2", "2", "2">>,
      <<"p9", "p1", "p2", "a3", "a4", "a5", "6", "7", "8", "9">>,
      <<"9", "8", "1", "2", "3", "4", "5", "6", "7", "8">>,
      <<"8", "1", "2", "3", "4", "5", "6", "7", "8", "9">>,
      <<"9", "1", "2", "3", "4", "5", "6", "7", "8">>,
      <<"9", "1", "2", "3", "4", "5", "6", "7", "8", "9", "0">>,
      <<"9", "1", "2", "3", "4", "5", "6", "7", "x", "9">>,
      <<"9", "1", "2", "3", "4", "5", "6", "7", "8", "sup2">>,
      <<"9", "1", "2", "3", "4", "5", "6", "7", "8", "d9">> }

PhoneInputs == { prefix \o local : prefix \in PhonePrefixes, local \in PhoneLocals }

PhoneCreatePayloads ==
    { [service_date |-> today(0), name |-> <<"a">>, phone |-> phone, birthday |-> None] :
        phone \in PhoneInputs }

\* an edit of the phone alone; the stored phones are inputs too
PhoneUpdatePayloads ==
    { [fields |-> {"phone"}, name |-> <<>>, phone |-> phone, birthday |-> None] :
        phone \in PhoneInputs \cup {e.phone : e \in queueentry} }

PhoneIssue == \E payload \in PhoneCreatePayloads : IssueAt(payload)

PhoneEdit ==
    \E entry_id \in 1..MaxEditId, payload \in PhoneUpdatePayloads : EditAt(entry_id, payload)

PhoneNext == PhoneIssue \/ PhoneEdit

PhoneSpec == Init /\ [][PhoneNext]_vars

(***************************************************************************)
(* The service handling one request at a time, where call_next_number is   *)
(* requested again for every date as long as it would change a status.     *)
(* CallNextFair is weak fairness of CallNextAt, WF_vars(CallNextAt(d)),     *)
(* with ENABLED <<CallNextAt(d)>>_vars narrowed to the state predicate     *)
(* CallNextPending.                                                        *)
(***************************************************************************)
CallNextPending(service_date) ==
    call_next_number(DB, clock, service_date).db.queueentry # queueentry

CallNextFair(service_date) ==
    \/ []<>(~CallNextPending(service_date))
    \/ []<><<CallNextAt(service_date)>>_vars

DrainSpec == Init /\ [][Next]_vars /\ \A service_date \in Dates : CallNextFair(service_date)

(***************************************************************************)
(* Properties.                                                             *)
(***************************************************************************)
EntriesOf(service_date) == {e \in queueentry : e.service_date = service_date}

HasStatus(rows, status) == {e \in rows : e.status = status}

Lowest(rows) == {e \in rows : \A o \in rows : e.ticket_index <= o.ticket_index}

Highest(rows) == {e \in rows : \A o \in rows : e.ticket_index >= o.ticket_index}

TheRow(rows) == IF rows = {} THEN None ELSE CHOOSE e \in rows : TRUE

DigitValue(c) == CHOOSE n \in 0..9 : DigitChar(n) = c

RECURSIVE ParseDecimal(_)
ParseDecimal(s) ==
    IF s = <<>> THEN 0
    ELSE 10 * ParseDecimal(SubSeq(s, 1, Len(s) - 1)) + DigitValue(s[Len(s)])

\* C1: in every state reached by OpenDay, Issue, Edit, CallNext and
\* CallPrevious executed one at a time, each service date has at most one
\* entry with status active.
C1_AtMostOneActive ==
    \A d \in Dates : Cardinality(HasStatus(EntriesOf(d), "active")) <= 1

C1_Witness ==
    \E d \in Dates :
        /\ trip.phase = "previous"
        /\ Cardinality(HasStatus(EntriesOf(d), "active")) = 1
        /\ HasStatus(EntriesOf(d), "waiting") # {}
        /\ HasStatus(EntriesOf(d), "served") # {}

\* C2: the ticket indices of a date are exactly 1..N, assigned in the order
\* the entries were issued, and each display code is three digits that read
\* as the entry's index.
C2_ContiguousIndices ==
    \A d \in Dates :
        /\ {e.ticket_index : e \in EntriesOf(d)} = 1..Cardinality(EntriesOf(d))
        /\ \A e \in EntriesOf(d) :
              /\ Len(e.ticket_number) = 3
              /\ \A i \in 1..3 : e.ticket_number[i] \in AsciiDigits
              /\ ParseDecimal(e.ticket_number) = e.ticket_index
        /\ \A e, f \in EntriesOf(d) : e.id < f.id => e.ticket_index < f.ticket_index

C2_Witness ==
    \E d1, d2 \in Dates :
        /\ d1 # d2
        /\ Cardinality(EntriesOf(d1)) = 2
        /\ Cardinality(EntriesOf(d2)) = 1
        /\ \E e \in EntriesOf(d1), f \in EntriesOf(d2) : e.ticket_index = 2 /\ f.id < e.id

\* C3 (as claimed): once CallNext has activated an entry and CallPrevious
\* follows it immediately on the same date, the date has as many entries of
\* each status as before the CallNext.
C3_RoundTrip ==
    trip.phase = "previous" => StatusCount(queueentry, trip.service_date) = trip.before

\* C3 (amended): the same, for a CallNext made while an entry was active.
C3_RoundTripFromActive ==
    (trip.phase = "previous" /\ trip.before["active"] > 0)
        => StatusCount(queueentry, trip.service_date) = trip.before

C3_Witness ==
    /\ trip.phase = "previous"
    /\ trip.before["active"] > 0
    /\ trip.before["waiting"] > 0
    /\ HasStatus(EntriesOf(trip.service_date), "waiting") # {}

\* C4: a CallNext step marks the active entry (if any) served, activates the
\* lowest waiting entry above lastIndex (the lowest waiting entry if none is
\* above), leaves every other entry alone, and reports the activated entry
\* (none: queue empty) and the entry marked served (none: nothing was active).
C4_Post(d) ==
    LET act == HasStatus(EntriesOf(d), "active")
        served == HasStatus(EntriesOf(d), "served")
        waiting == HasStatus(EntriesOf(d), "waiting")
        lastIndex == IF act # {} THEN TheRow(act).ticket_index
                     ELSE IF served # {} THEN TheRow(Highest(served)).ticket_index
                     ELSE 0
        above == {e \in waiting : e.ticket_index > lastIndex}
        target == IF above # {} THEN Lowest(above) ELSE Lowest(waiting)
        result == call_next_number(DB, clock, d).response
    IN  /\ queueentry' = {IF e \in act THEN [e EXCEPT !.status = "served"]
                          ELSE IF e \in target THEN [e EXCEPT !.status = "active"]
                          ELSE e : e \in queueentry}
        /\ queueday' = queueday
        /\ result.status_code = 200
        /\ result.active = IF target = {} THEN None
                           ELSE [TheRow(target) EXCEPT !.status = "active"]
        /\ result.served = IF act = {} THEN None
                           ELSE [TheRow(act) EXCEPT !.status = "served"]
        /\ (result.detail = "QueueEmpty") <=> (target = {})

C4_CallNext == [][\A d \in Dates : CallNextAt(d) => C4_Post(d)]_vars

C4_Witness ==
    /\ trip.phase = "next"
    /\ trip.before["active"] = 1
    /\ trip.before["served"] = 1
    /\ trip.before["waiting"] = 1
    /\ Cardinality(HasStatus(EntriesOf(trip.service_date), "served")) = 2

\* C5: when the date has a served entry, a CallPrevious step makes the
\* highest served entry active and the active entry (if any) waiting, leaves
\* every other entry alone, and reports the reactivated entry and no served
\* entry.
C5_Post(d) ==
    LET act == HasStatus(EntriesOf(d), "active")
        previous == Highest(HasStatus(EntriesOf(d), "served"))
        result == call_previous_number(DB, clock, d).response
    IN  previous # {} =>
            /\ queueentry' = {IF e \in previous THEN [e EXCEPT !.status = "active"]
                              ELSE IF e \in act THEN [e EXCEPT !.status = "waiting"]
                              ELSE e : e \in queueentry}
            /\ queueday' = queueday
            /\ result.status_code = 200
            /\ result.active = [TheRow(previous) EXCEPT !.status = "active"]
            /\ result.served = None

C5_CallPrevious == [][\A d \in Dates : CallPreviousAt(d) => C5_Post(d)]_vars

C5_Witness ==
    /\ trip.phase = "previous"
    /\ trip.before["served"] > 0
    /\ \E a \in HasStatus(EntriesOf(trip.service_date), "active"),
          w \in HasStatus(EntriesOf(trip.service_date), "waiting"),
          f \in HasStatus(EntriesOf(trip.service_date), "served") :
            f.ticket_index < a.ticket_index /\ a.ticket_index < w.ticket_index

\* C6: whenever a CallNext step activates an entry, no waiting entry of the
\* date has a smaller index, and the entry is the one summarize_queue
\* reported as next before the step.
C6_Fifo ==
    [][\A d \in Dates :
        LET result == call_next_number(DB, clock, d).response
        IN  (CallNextAt(d) /\ result.active # None) =>
                /\ \A e \in HasStatus(EntriesOf(d), "waiting") :
                      result.active.ticket_index <= e.ticket_index
                /\ summarize_queue(fetch_queue_entries(queueentry, d)).next.id
                      = result.active.id
                /\ result.active \in queueentry']_vars

C6_Witness ==
    /\ trip.phase = "next"
    /\ trip.before["active"] = 0
    /\ trip.before["served"] > 0
    /\ trip.before["waiting"] > 1

\* C7: in every step an entry keeps its status or goes waiting->active or
\* active->served in a CallNext, served->active or active->waiting in a
\* CallPrevious; an entry that appears in a step is waiting.
C7_Transitions ==
    [][/\ \A e \in queueentry, f \in queueentry' :
            (e.id = f.id /\ e.status # f.status) =>
                \/ /\ CallNextAt(e.service_date)
                   /\ <<e.status, f.status>> \in {<<"waiting", "active">>,
                                                  <<"active", "served">>}
                \/ /\ CallPreviousAt(e.service_date)
                   /\ <<e.status, f.status>> \in {<<"served", "active">>,
                                                  <<"active", "waiting">>}
       /\ \A f \in queueentry' :
            (\A e \in queueentry : e.id # f.id) => f.status = "waiting"]_vars

C7_Witness ==
    \E d \in Dates :
        /\ trip = NoTrip
        /\ HasStatus(EntriesOf(d), "waiting") # {}
        /\ HasStatus(EntriesOf(d), "active") # {}
        /\ HasStatus(EntriesOf(d), "served") # {}
        /\ \E e \in EntriesOf(d) : e.name = <<"b">> /\ e.status = "served"

\* C9: a request answered with an error leaves the three tables as they
\* were.
C9_ErrorsChangeNothing ==
    [][/\ \A d \in Dates, o \in BOOLEAN :
            (OpenDayAt(d, o) /\ start_day(DB, clock, d, o).response.status_code >= 400)
                => UNCHANGED <<queueday, queueentry, queueloadsnapshot>>
       /\ \A p \in CreatePayloads :
            (IssueAt(p) /\ create_entry(DB, clock, p).response.status_code >= 400)
                => UNCHANGED <<queueday, queueentry, queueloadsnapshot>>
       /\ \A i \in 1..MaxEditId, p \in UpdatePayloads :
            (EditAt(i, p) /\ update_entry(DB, clock, i, p).response.status_code >= 400)
                => UNCHANGED <<queueday, queueentry, queueloadsnapshot>>
       /\ \A d \in Dates :
            (CallPreviousAt(d)
             /\ call_previous_number(DB, clock, d).response.status_code >= 400)
                => UNCHANGED <<queueday, queueentry, queueloadsnapshot>>]_vars

\* C8 (as claimed): with requests interleaved at their reads and commits,
\* no two distinct committed entries of one date are active.
C8_AtMostOneActiveInterleaved ==
    \A e, f \in queueentry :
        (e.service_date = f.service_date /\ e.status = "active" /\ f.status = "active")
            => e.id = f.id

\* C10 (as claimed): a request commits its writes in one transaction: no
\* running request has committed a second one.
C10_OneTransaction ==
    \A t \in Threads : session[t] # Idle => session[t].commits <= 1

\* C11: an Issue step answers QueueFull exactly when its payload is valid and
\* the date already holds index 999, and then adds no entry; an Issue made
\* when the highest index is 998 adds the entry with index 999 and display
\* code "999".
C11_QueueFull ==
    [][\A p \in CreatePayloads :
        LET result == create_entry(DB, clock, p).response
            full == \E e \in EntriesOf(p.service_date) : e.ticket_index >= 999
            last == \E e \in EntriesOf(p.service_date) : e.ticket_index = 998
        IN  IssueAt(p) =>
              /\ (result.detail = "QueueFull") <=> (ValidCreate(p) /\ full)
              /\ result.detail = "QueueFull" =>
                    (result.status_code = 400 /\ queueentry' = queueentry)
              /\ (ValidCreate(p) /\ last /\ ~full) =>
                    /\ result.status_code = 201
                    /\ result.body.ticket_index = 999
                    /\ result.body.ticket_number = <<"9", "9", "9">>
                    /\ queueentry' = queueentry \cup {result.body}]_vars

C11_Witness ==
    \E e \in queueentry :
        /\ e.ticket_index = 999
        /\ e.ticket_number = <<"9", "9", "9">>
        /\ e.id = 2
        /\ \A o \in EntriesOf(e.service_date) : o.ticket_index <= 999

\* C12: an OpenDay step creates the ServiceDay when the date has none, fails
\* DayAlreadyStarted when it has one and overwrite is false, fails
\* DayActiveCannotReset when it has one, overwrite is true and the date has
\* entries, and otherwise replaces the ServiceDay; a failure leaves the three
\* tables unchanged and a success leaves exactly one ServiceDay for the date.
C12_OpenDayOutcomes ==
    [][\A d \in Dates, o \in BOOLEAN :
        LET result == start_day(DB, clock, d, o).response
            existing == {q \in queueday : q.service_date = d}
            others == {q \in queueday : q.service_date # d}
            unchanged == UNCHANGED <<queueday, queueentry, queueloadsnapshot>>
            created == /\ result.status_code = 201
                       /\ queueday' = others \cup {result.body}
                       /\ result.body.service_date = d
                       /\ result.body.started_at = utcnow(clock)
                       /\ Cardinality({q \in queueday' : q.service_date = d}) = 1
                       /\ queueentry' = queueentry
        IN  OpenDayAt(d, o) =>
              /\ existing = {} => created
              /\ (existing # {} /\ ~o) =>
                    (result.status_code = 400 /\ result.detail = "DayAlreadyStarted"
                     /\ unchanged)
              /\ (existing # {} /\ o /\ EntriesOf(d) # {}) =>
                    (result.status_code = 400 /\ result.detail = "DayActiveCannotReset"
                     /\ unchanged)
              /\ (existing # {} /\ o /\ EntriesOf(d) = {}) => created]_vars

C12_Witness ==
    \E d \in Dates :
        /\ \E q \in queueday : q.service_date = d
        /\ EntriesOf(d) = {}
        /\ \E s \in queueloadsnapshot :
              s.service_date = d /\ s.pending_count = 0 /\ s.served_count = 0
        /\ \E e \in queueentry : e.service_date # d /\ e.status = "served"

\* C13: with requests handled one at a time no step removes an entry: every
\* (service date, ticket index) present before a step is present after it.
C13_EntriesNeverRemoved ==
    [][{<<e.service_date, e.ticket_index>> : e \in queueentry}
          \subseteq {<<e.service_date, e.ticket_index>> : e \in queueentry'}]_vars

C13_Witness ==
    \E d1, d2 \in Dates :
        /\ d1 # d2
        /\ Cardinality(EntriesOf(d1)) >= 2
        /\ \E q \in queueday : q.service_date = d2
        /\ EntriesOf(d2) = {}
        /\ \E s \in queueloadsnapshot : s.service_date = d2

\* C14 (as claimed): with OpenDay(overwrite) and Issue requests interleaved
\* at their reads and commits, no step deletes a committed entry.
C14_NoEntryDeletedByOpenDay ==
    [][\A e \in queueentry : \E f \in queueentry' : f.id = e.id]_vars

\* C15: with Issue requests interleaved at their reads and commits, no two
\* committed entries share (service date, ticket index).
C15_NoDuplicateIndex ==
    \A e, f \in queueentry :
        (e.service_date = f.service_date /\ e.ticket_index = f.ticket_index) => e = f

\* two requests computed the same index; one has committed, the other is
\* about to insert
C15_Witness ==
    \E t \in Threads :
        /\ session[t].pc = "create_entry_add"
        /\ \E e \in queueentry : /\ e.service_date = session[t].service_date
                                 /\ e.ticket_index = session[t].next_index
                                 /\ e.ticket_index = 2

\* C16: a CallPrevious step on a date with no served entry answers
\* NoPreviousEntry and leaves the three tables unchanged.
C16_NoPreviousEntry ==
    [][\A d \in Dates :
        LET result == call_previous_number(DB, clock, d).response
        IN  (CallPreviousAt(d) /\ HasStatus(EntriesOf(d), "served") = {}) =>
              /\ result.status_code = 404
              /\ result.detail = "NoPreviousEntry"
              /\ result.active = None
              /\ UNCHANGED <<queueday, queueentry, queueloadsnapshot>>]_vars

\* a CallPrevious made right after the first CallNext of the date
C16_Witness ==
    /\ trip.phase = "previous"
    /\ trip.before["served"] = 0
    /\ trip.before["active"] = 0
    /\ HasStatus(EntriesOf(trip.service_date), "served") = {}
    /\ HasStatus(EntriesOf(trip.service_date), "active") # {}

\* C17: in every state the summary of a date reports its single active entry
\* (or none), its lowest waiting entry as next (or none), the numbers of
\* waiting and served entries, and as pending the number of entries that are
\* not served, which is the number waiting plus the number active.
C17_Summarize ==
    \A d \in Dates :
        LET summary == summarize_queue(fetch_queue_entries(queueentry, d))
            act == HasStatus(EntriesOf(d), "active")
            waiting == HasStatus(EntriesOf(d), "waiting")
            served == HasStatus(EntriesOf(d), "served")
        IN  /\ Cardinality(act) <= 1
            /\ summary.active = TheRow(act)
            /\ summary.next = TheRow(Lowest(waiting))
            /\ summary.waiting_count = Cardinality(waiting)
            /\ summary.served_count = Cardinality(served)
            /\ summary.pending_count = Cardinality(EntriesOf(d)) - Cardinality(served)
            /\ summary.pending_count = Cardinality(waiting) + Cardinality(act)

C17_Witness ==
    \E d \in Dates :
        LET summary == summarize_queue(fetch_queue_entries(queueentry, d))
        IN  /\ summary.active # None
            /\ summary.next # None
            /\ summary.served_count = 1
            /\ summary.pending_count = 2
            /\ summary.next.ticket_index > summary.active.ticket_index

\* the 30-minute window that contains the time t (minutes)
WindowOf(t) ==
    [date |-> t \div 1440, hour |-> (t % 1440) \div 60, minute |-> 30 * ((t % 60) \div 30)]

SnapshotsOf(table, service_date, window_start) ==
    {s \in table : s.service_date = service_date /\ s.window_start = window_start}

Counts(summary) ==
    [pending_count |-> summary.pending_count, waiting_count |-> summary.waiting_count,
     served_count |-> summary.served_count]

C18_OnePerWindow ==
    \A s1, s2 \in queueloadsnapshot :
        /\ s1.window_start.minute \in {0, 30}
        /\ (s1.service_date = s2.service_date /\ s1.window_start = s2.window_start)
              => s1 = s2

C18_Upsert ==
    \E d \in Dates :
        LET old == SnapshotsOf(queueloadsnapshot, d, WindowOf(clock))
            new == SnapshotsOf(queueloadsnapshot', d, WindowOf(clock))
        IN  /\ queueloadsnapshot' \ new = queueloadsnapshot \ old
            /\ Cardinality(new) = 1
            /\ old = {} => Cardinality(queueloadsnapshot') = Cardinality(queueloadsnapshot) + 1
            /\ old # {} => Cardinality(queueloadsnapshot') = Cardinality(queueloadsnapshot)
            /\ \A s \in new :
                  Counts(s) = Counts(summarize_queue(fetch_queue_entries(queueentry', d)))

\* C18: every state has at most one snapshot per (service date, 30-minute
\* window); a step that changes the snapshots either replaces the row of the
\* current window of one date by a row with the counts of the resulting
\* queue, or, when the window has no row, adds exactly that one row.
C18_SnapshotUpsert ==
    []C18_OnePerWindow /\ [][queueloadsnapshot' # queueloadsnapshot => C18_Upsert]_vars

\* the row of the first window was rewritten until an entry was served, and a
\* later window has its own row
C18_Witness ==
    \E s1, s2 \in queueloadsnapshot :
        /\ s1.service_date = s2.service_date
        /\ s1.window_start = [date |-> 0, hour |-> 0, minute |-> 0]
        /\ s1.served_count >= 1
        /\ s2.window_start = [date |-> 0, hour |-> 0, minute |-> 30]
        /\ Counts(s2) # Counts(s1)

\* after the step, the date has a snapshot for the current window whose
\* counts are those of the summary of the resulting queue
C19_Recorded(d) ==
    \E s \in SnapshotsOf(queueloadsnapshot', d, WindowOf(clock)) :
        Counts(s) = Counts(summarize_queue(fetch_queue_entries(queueentry', d)))

\* C19 with requests handled one at a time: after every successful Issue,
\* Edit, CallNext or CallPrevious step the snapshot of (date, current window)
\* exists and its counts equal the summary of the date in the resulting state.
C19_SnapshotFollows ==
    [][/\ \A p \in TimeCreatePayloads :
            (IssueAt(p) /\ create_entry(DB, clock, p).response.status_code < 400)
                => C19_Recorded(p.service_date)
       /\ \A p \in TimeUpdatePayloads :
            (EditAt(1, p) /\ update_entry(DB, clock, 1, p).response.status_code < 400)
                => C19_Recorded(get_entry(queueentry, 1).service_date)
       /\ (TimeCallNext
           /\ call_next_number(DB, clock, today(clock)).response.status_code < 400)
                => C19_Recorded(today(clock))
       /\ (TimeCallPrevious
           /\ call_previous_number(DB, clock, today(clock)).response.status_code < 400)
                => C19_Recorded(today(clock))]_vars

\* C19 (as claimed): when a successful Issue, CallNext or CallPrevious request
\* completes (its snapshot commit is its last step), the snapshot of (date,
\* current window) has the counts of the summary of the date in the state it
\* leaves.
C19_SnapshotFollowsInterleaved ==
    [][\A t \in Threads :
        (session[t].pc = "snapshot_commit" /\ snapshot_commit(t)
         /\ queueloadsnapshot' # queueloadsnapshot)
            => C19_Recorded(session[t].service_date)]_vars

\* C20: an Edit step with an unknown id answers EntryNotFound and one for an
\* entry of another date than today answers EditWindowClosed, both leaving the
\* three tables unchanged; a successful Edit is of an entry of today, keeps
\* every other entry, and keeps the id, service date, ticket index, display
\* code and status of the edited one.
C20_EditFrame ==
    [][\A i \in 1..MaxEditId, p \in FrameUpdatePayloads :
        LET result == update_entry(DB, clock, i, p).response
            entry == {e \in queueentry : e.id = i}
            unchanged == UNCHANGED <<queueday, queueentry, queueloadsnapshot>>
        IN  EditAt(i, p) =>
              /\ entry = {} =>
                    (result.status_code = 404 /\ result.detail = "EntryNotFound"
                     /\ unchanged)
              /\ \A e \in entry : e.service_date # clock \div 1440 =>
                    (result.status_code = 403 /\ result.detail = "EditWindowClosed"
                     /\ unchanged)
              /\ result.status_code < 400 =>
                    /\ \E e \in entry : e.service_date = clock \div 1440
                    /\ queueday' = queueday
                    /\ Cardinality(queueentry') = Cardinality(queueentry)
                    /\ \A e \in queueentry \ entry : e \in queueentry'
                    /\ \A e \in entry : \E f \in queueentry' :
                          /\ f.id = e.id
                          /\ f.service_date = e.service_date
                          /\ f.ticket_index = e.ticket_index
                          /\ f.ticket_number = e.ticket_number
                          /\ f.status = e.status]_vars

\* a served entry whose name, phone and birthday were all edited, next to an
\* entry that still has the values it was issued with
C20_Witness ==
    \E e, o \in queueentry :
        /\ e.status = "served"
        /\ e.name = <<"b">>
        /\ e.phone = normalize_phone(Phone3).value
        /\ e.birthday = Birthday1
        /\ o.id # e.id
        /\ o.service_date = e.service_date
        /\ o.name = <<"a">>
        /\ o.phone = normalize_phone(Phone1).value
        /\ o.birthday = None

\* C21: in every state of the store, interleaved OpenDay and Issue requests
\* included, every date that has an entry has a ServiceDay.
C21_DayOfEveryEntry ==
    \A e \in queueentry : \E day \in queueday : day.service_date = e.service_date

\* the canonical form: +98 and ten ASCII digits, the first of them 9
LocalNumber(s) ==
    /\ Len(s) = 10
    /\ s[1] = "9"
    /\ \A i \in 1..Len(s) : s[i] \in AsciiDigits

CanonicalPhone(s) == StartsWith(s, <<"+", "9", "8">>) /\ LocalNumber(Slice(s, 3))

\* C22: every phone that normalize_phone accepted, as stored by Issue and
\* Edit, is +98 followed by exactly ten digits beginning with 9, and
\* normalize_phone maps it to itself.
C22_CanonicalAndIdempotent ==
    \A e \in queueentry :
        /\ CanonicalPhone(e.phone)
        /\ normalize_phone(e.phone) = Ok(e.phone)

\* the input after digit mapping and removal of whitespace, hyphens, parentheses
Cleaned(phone) ==
    SelectSeq(normalize_digits(phone), LAMBDA c : c \notin Whitespace \cup {"-", "(", ")"})

ListedShape(cleaned) ==
    \/ StartsWith(cleaned, <<"0", "0", "9", "8">>) /\ LocalNumber(Slice(cleaned, 4))
    \/ StartsWith(cleaned, <<"+", "9", "8">>) /\ LocalNumber(Slice(cleaned, 3))
    \/ StartsWith(cleaned, <<"0">>) /\ LocalNumber(Slice(cleaned, 1))
    \/ LocalNumber(cleaned)

\* C23: an Issue step stores an entry only if the cleaned phone of the request
\* has one of the four listed shapes; with any other phone the request is
\* answered 400 and no entry is stored.
C23_OnlyListedShapes ==
    [][\A payload \in PhoneCreatePayloads :
        LET result == create_entry(DB, clock, payload).response
        IN  (IssueAt(payload) /\ ~ListedShape(Cleaned(payload.phone)))
                => (result.status_code = 400 /\ queueentry' = queueentry)]_vars

\* C22, second half alone: normalize_phone maps every stored phone to itself
C22_Idempotent == \A e \in queueentry : normalize_phone(e.phone) = Ok(e.phone)

StatusRank(status) ==
    CASE status = "served" -> 0 [] status = "active" -> 1 [] status = "waiting" -> 2

\* the first query of get_next_waiting_entry, with the after_index that
\* call_next_number passes for the date
FirstQuery(service_date) ==
    LET rows == EntriesOf(service_date)
        active == HasStatus(rows, "active")
        served == HasStatus(rows, "served")
        last_index == IF active # {} THEN TheRow(Lowest(active)).ticket_index
                      ELSE IF served # {} THEN TheRow(Highest(served)).ticket_index
                      ELSE 0
    IN  {e \in HasStatus(rows, "waiting") : e.ticket_index > last_index}

\* C24: with requests handled one at a time, on every date the served entries
\* have lower indexes than the active and the waiting ones and the active
\* entry a lower index than the waiting ones; whenever the date has a waiting
\* entry, the first query of CallNext finds one, and it is the lowest waiting
\* entry, so the second query never decides.
C24_StatusOrder ==
    \A d \in Dates :
        /\ \A e, f \in EntriesOf(d) :
              StatusRank(e.status) < StatusRank(f.status) => e.ticket_index < f.ticket_index
        /\ HasStatus(EntriesOf(d), "waiting") # {} =>
              /\ FirstQuery(d) # {}
              /\ Lowest(FirstQuery(d)) = Lowest(HasStatus(EntriesOf(d), "waiting"))

\* a CallNext that found no active entry, took the index of the last served
\* entry and activated a waiting entry issued after the queue had run empty
C24_Witness ==
    /\ trip.phase = "next"
    /\ trip.before["active"] = 0
    /\ trip.before["served"] > 0
    /\ HasStatus(EntriesOf(trip.service_date), "active") # {}
    /\ HasStatus(EntriesOf(trip.service_date), "waiting") # {}

Drained(d) == \A e \in EntriesOf(d) : e.status = "served"

\* the CallNext calls a date still needs: none when drained, otherwise one
\* for each waiting entry and one more
CallsToDrain(d) ==
    IF Drained(d) THEN 0 ELSE Cardinality(HasStatus(EntriesOf(d), "waiting")) + 1

IssueOn(d) == \E payload \in CreatePayloads : payload.service_date = d /\ IssueAt(payload)

\* C25, counting: every CallNext step on a date that is not drained lowers
\* the number of calls the date still needs by one; on a drained date it
\* changes no entry and reports an empty queue with nothing served.
C25_EachCallCounts ==
    [][\A d \in Dates :
        LET result == call_next_number(DB, clock, d).response
        IN  CallNextAt(d) =>
              /\ ~Drained(d) => CallsToDrain(d)' = CallsToDrain(d) - 1
              /\ Drained(d) => /\ queueentry' = queueentry
                               /\ result.detail = "QueueEmpty"
                               /\ result.active = None
                               /\ result.served = None]_vars

\* C25, draining: if from some point on no Issue and no CallPrevious is
\* performed on a date while CallNext keeps being called, then from some
\* point on every entry of the date is served.
C25_EventuallyDrained ==
    \A d \in Dates :
        <>[][~IssueOn(d) /\ ~CallPreviousAt(d)]_vars => <>[]Drained(d)

\* C25: the queue of a date drains once Issue and CallPrevious have stopped,
\* within (waiting entries + 1) CallNext calls, and stays drained under CallNext.
C25_QueueDrains == C25_EachCallCounts /\ C25_EventuallyDrained

\* a date with three entries, all served, the last by a CallNext that found
\* nothing more to activate
C25_Witness ==
    \E d \in Dates :
        /\ Cardinality(EntriesOf(d)) >= 3
        /\ Drained(d)
        /\ trip = NoTrip

====
